---------------------------- MODULE Spec2Model ----------------------------
(***************************************************************************)
(* Tool-invocation mediation pipeline of codex-rs/core:                    *)
(*   hooks/matcher.rs, hooks/types.rs, hooks/executor.rs (PreToolUse hook  *)
(*   engine) and tools/registry.rs (ToolRegistry::dispatch).               *)
(*                                                                         *)
(* One dispatch call is modelled step by step, every await point of the    *)
(* code being a boundary between two actions.  The hook subprocess and the *)
(* pipe to its stdin are modelled as an environment that interleaves with  *)
(* the engine.  Texts are sequences of string tokens, options are          *)
(* sequences of length 0 (None) or 1 (Some).                               *)
(***************************************************************************)
EXTENDS Integers, Sequences, FiniteSets, TLC

VARIABLES
    inv,          \* the ToolInvocation: [tool_name, payload, arguments], the
                  \* payload's variant and what the variant holds
    hooksCfg,     \* config.hooks.pre_tool_use: sequence of PreToolUseHookConfig
    inputChunks,  \* size of the serialized HookInput, in pipe-buffer units
    pc,           \* position of dispatch
    is_mutating,  \* registry.rs:132
    tool_input,   \* registry.rs:138 what run_pre_tool_use_hooks is handed
    duration,     \* registry.rs:208
    gateReady,    \* turn.tool_call_gate readiness flag
    gateAwaited,  \* history: wait_ready() was awaited by this dispatch
    hookPc,       \* position of run_pre_tool_use_hooks / execute_single_hook
    idx,          \* index of the rule the for loop is at
    toWrite,      \* chunks of input_json write_all still has to write
    pipe,         \* chunks sitting in the child's stdin pipe
    children,     \* per rule: the hook subprocess spawned for it
    trace,        \* history: the rules evaluated so far and what each led to
    hookResult,   \* executor.rs:50 `result` of the rule evaluated last, with
                  \* the process it came from
    hookRet,      \* return value of run_pre_tool_use_hooks
    otel,         \* telemetry tool-result records
    handleCalls,  \* number of handler.handle invocations
    output_cell,  \* registry.rs:175
    result,       \* registry.rs:179 result of the telemetry-wrapped closure
    afterEvents,  \* AfterToolUse events dispatched
    ret,          \* return value of dispatch
    m_pattern,    \* matches_tool called by itself: its pattern,
    m_tool_name,  \* its tool name
    m_result,     \* and what it returned
    value_in,     \* normalize_command_to_string: the value it was given
    value,        \* and the value it works on in place
    handlers,     \* ToolRegistryBuilder.handlers
    specs,        \* ToolRegistryBuilder.specs
    builderCalls, \* history: the calls made on the builder, in order
    built,        \* what build() returned
    calls         \* the dispatch calls running concurrently on one turn

vars == <<inv, hooksCfg, inputChunks, pc, is_mutating, tool_input, duration,
          gateReady, gateAwaited,
          hookPc, idx, toWrite, pipe, children, trace, hookResult, hookRet, otel,
          handleCalls, output_cell, result, afterEvents, ret,
          m_pattern, m_tool_name, m_result, value_in, value,
          handlers, specs, builderCalls, built, calls>>

dispatchVars == <<pc, is_mutating, tool_input, duration, gateAwaited, otel, handleCalls,
                  output_cell, result, afterEvents, ret>>
engineVars == <<hookPc, idx, toWrite, pipe, children, trace, hookResult, hookRet>>
inputVars == <<inv, hooksCfg, inputChunks>>
matcherVars == <<m_pattern, m_tool_name, m_result>>
normalizeVars == <<value_in, value>>
builderVars == <<handlers, specs, builderCalls, built>>
turnVars == <<calls>>
\* what one dispatch call leaves alone: its inputs and the other components
otherVars == <<inputVars, matcherVars, normalizeVars, builderVars, turnVars>>

-----------------------------------------------------------------------------
(* Bounds *)

MaxRules == 2

(* Program / platform constants *)

\* One unit of pipe buffer: a write larger than the buffer blocks until the
\* reader drains it.
PipeCapacity == 1
PreviewBytes == 200

-----------------------------------------------------------------------------
(* Options *)

None == <<>>
Some(x) == <<x>>
IsSome(o) == Len(o) = 1
Get(o) == o[1]

-----------------------------------------------------------------------------
(* hooks/matcher.rs *)

\* u8::to_ascii_lowercase: the letters A-Z only
Lower(c) ==
    CASE c = "S" -> "s"
      [] c = "H" -> "h"
      [] c = "M" -> "m"
      [] c = "X" -> "x"
      [] OTHER -> c

\* char::to_lowercase, which the case-insensitive WildMatchPattern compares
\* by: every cased letter, ASCII or not ("E'" and "e'" stand for the capital
\* and the small e with an acute accent)
to_lowercase(c) == IF c = "E'" THEN "e'" ELSE Lower(c)

RECURSIVE LowerAll(_)
LowerAll(s) == IF s = <<>> THEN <<>> ELSE <<Lower(Head(s))>> \o LowerAll(Tail(s))

eq_ignore_ascii_case(a, b) == LowerAll(a) = LowerAll(b)

Contains(s, c) == \E i \in 1..Len(s) : s[i] = c

\* WildMatchPattern<'*','?'>::new_case_insensitive(pattern).matches(name)
RECURSIVE WildMatch(_, _)
WildMatch(p, n) ==
    IF p = <<>> THEN n = <<>>
    ELSE IF Head(p) = "*"
         THEN WildMatch(Tail(p), n) \/ (n # <<>> /\ WildMatch(p, Tail(n)))
         ELSE /\ n # <<>>
              /\ (Head(p) = "?" \/ to_lowercase(Head(p)) = to_lowercase(Head(n)))
              /\ WildMatch(Tail(p), Tail(n))

matches_tool(pattern, tool_name) ==
    IF pattern = <<"*">> THEN TRUE
    ELSE IF Contains(pattern, "*") \/ Contains(pattern, "?")
         THEN WildMatch(pattern, tool_name)
         ELSE eq_ignore_ascii_case(pattern, tool_name)

-----------------------------------------------------------------------------
(* Texts written by a hook process.  A text is a sequence of runs; a run   *)
(* is n copies of a character that takes w bytes in UTF-8.                 *)

Run(ch, w, n) == [ch |-> ch, w |-> w, n |-> n]

IsWhitespace(ch) == ch \in {" ", "\n"}

\* str::trim().is_empty()
TrimIsEmpty(runs) == \A i \in 1..Len(runs) : IsWhitespace(runs[i].ch)

RECURSIVE ByteLen(_)
ByteLen(runs) ==
    IF runs = <<>> THEN 0 ELSE Head(runs).w * Head(runs).n + ByteLen(Tail(runs))

Min(a, b) == IF a <= b THEN a ELSE b

\* str::is_char_boundary(k), for 0 <= k <= ByteLen(runs)
RECURSIVE IsCharBoundary(_, _)
IsCharBoundary(runs, k) ==
    IF k = 0 THEN TRUE
    ELSE IF runs = <<>> THEN FALSE
    ELSE LET sz == Head(runs).w * Head(runs).n
         IN  IF k >= sz THEN IsCharBoundary(Tail(runs), k - sz)
             ELSE k % Head(runs).w = 0

\* &s[..k] for a k that is a char boundary
RECURSIVE SliceTo(_, _)
SliceTo(runs, k) ==
    IF k = 0 \/ runs = <<>> THEN <<>>
    ELSE LET r == Head(runs)
             sz == r.w * r.n
         IN  IF k >= sz THEN <<r>> \o SliceTo(Tail(runs), k - sz)
             ELSE <<Run(r.ch, r.w, k \div r.w)>>

RECURSIVE CharLen(_)
CharLen(runs) == IF runs = <<>> THEN 0 ELSE Head(runs).n + CharLen(Tail(runs))

\* stderr is a sequence of word and whitespace tokens; str::trim()
RECURSIVE TrimStart(_)
TrimStart(t) ==
    IF t # <<>> /\ IsWhitespace(Head(t)) THEN TrimStart(Tail(t)) ELSE t

RECURSIVE TrimEnd(_)
TrimEnd(t) ==
    IF t # <<>> /\ IsWhitespace(t[Len(t)])
    THEN TrimEnd(SubSeq(t, 1, Len(t) - 1)) ELSE t

Trim(t) == TrimEnd(TrimStart(t))

-----------------------------------------------------------------------------
(* hooks/types.rs *)

\* Variant of DecodeDecision: the names are matched whatever their case.
decodeDecisionAnyCase(s) ==
    CASE s \in {"allow", "approve"}    -> Some("Allow")
      [] s \in {"deny", "block", "Deny"} -> Some("Deny")
      [] s = "ask"                      -> Some("Ask")
      [] OTHER                          -> None

\* #[serde(rename_all = "lowercase")] enum HookDecision, with the aliases
DecodeDecision(s) ==
    CASE s \in {"allow", "approve"} -> Some("Allow")
      [] s \in {"deny", "block"}    -> Some("Deny")
      [] s = "ask"                  -> Some("Ask")
      [] OTHER                      -> None

\* Option<HookDecision> field with #[serde(default)]: absent -> None
DecisionFieldOk(f) == f = None \/ IsSome(DecodeDecision(Get(f)))
DecisionField(f) == IF f = None THEN None ELSE DecodeDecision(Get(f))

\* A JSON document on stdout: [decision, reason, hookSpecificOutput], each
\* member optional, hookSpecificOutput an object
\* [permissionDecision, permissionDecisionReason].
Doc(d, r, h) == [decision |-> d, reason |-> r, hookSpecificOutput |-> h]
Hso(pd, pdr) == [permissionDecision |-> pd, permissionDecisionReason |-> pdr]

\* #[derive(Deserialize)] #[serde(rename_all = "camelCase")] struct HookOutput
DeserializeOk(doc) ==
    /\ DecisionFieldOk(doc.decision)
    /\ \/ doc.hookSpecificOutput = None
       \/ DecisionFieldOk(Get(doc.hookSpecificOutput).permissionDecision)

Deserialize(doc) ==
    [hook_specific_output |->
        IF doc.hookSpecificOutput = None THEN None
        ELSE Some([permission_decision |->
                       DecisionField(Get(doc.hookSpecificOutput).permissionDecision),
                   permission_decision_reason |->
                       Get(doc.hookSpecificOutput).permissionDecisionReason]),
     decision |-> DecisionField(doc.decision),
     reason |-> doc.reason]

\* HookOutput::default()
DefaultHookOutput ==
    [hook_specific_output |-> None, decision |-> None, reason |-> None]

\* HookOutput::decision
decision(o) ==
    IF IsSome(o.hook_specific_output)
       /\ IsSome(Get(o.hook_specific_output).permission_decision)
    THEN Get(Get(o.hook_specific_output).permission_decision)
    ELSE IF IsSome(o.decision) THEN Get(o.decision) ELSE "Allow"

\* Variant of reason: a nested group that is present decides alone.
reasonNestedOnly(o) ==
    IF IsSome(o.hook_specific_output)
    THEN Get(o.hook_specific_output).permission_decision_reason
    ELSE o.reason

\* HookOutput::reason
reason(o) ==
    IF IsSome(o.hook_specific_output)
       /\ IsSome(Get(o.hook_specific_output).permission_decision_reason)
    THEN Get(o.hook_specific_output).permission_decision_reason
    ELSE o.reason

-----------------------------------------------------------------------------
(* Results *)

Ok(v) == [tag |-> "Ok", val |-> v]
Err(m) == [tag |-> "Err", msg |-> m]
Panic == [tag |-> "Panic"]

-----------------------------------------------------------------------------
(* Inputs of the model *)

FailurePolicies == {"Deny", "Allow"}
Matchers == {<<"*">>, <<"S", "?">>}
Commands == {<<>>, <<"hook">>}
TimeoutSecs == {5}

\* Size of the serialized HookInput in units of the pipe buffer: it fits
\* into the buffer, or it does not.
InputSizes == {PipeCapacity, PipeCapacity + 1}

\* config::types::PreToolUseHookConfig
HookRules ==
    [matcher : Matchers, command : Commands,
     timeout_sec : TimeoutSecs, on_failure : FailurePolicies]

RuleSeqs == UNION {[1..n -> HookRules] : n \in 0..MaxRules}

\* Tool names: two registered, one not.
ToolNames == {<<"s", "h">>, <<"m">>, <<"x">>}
PayloadKinds == {"Function", "Custom", "LocalShell", "Mcp"}

\* ToolRegistry.handlers: name -> kind() of the registered handler
Registry == (<<"s", "h">> :> "Function") @@ (<<"m">> :> "Mcp")

\* The registered handlers whose impl of ToolHandler defines is_mutating; the
\* others inherit the provided method of the trait.
OwnIsMutating == {<<"s", "h">>}

\* What a hook process can write to stdout.
JsonText(doc) == [runs |-> <<Run("j", 1, 40), Run("\n", 1, 1)>>, json |-> Some(doc)]
PlainText(runs) == [runs |-> runs, json |-> None]

SampleDocs ==
    { Doc(None, None, None),
      Doc(Some("allow"), None, None),
      Doc(Some("approve"), Some(<<"legacy">>), None),
      Doc(Some("deny"), Some(<<"legacy">>), None),
      Doc(Some("block"), None, None),
      Doc(Some("ask"), None, None),
      Doc(Some("ask"), Some(<<"legacy">>), None),
      Doc(Some("Deny"), None, None),
      Doc(None, None, Some(Hso(Some("deny"), Some(<<"nested">>)))),
      Doc(None, None, Some(Hso(Some("ask"), Some(<<"nested">>)))),
      Doc(Some("allow"), Some(<<"legacy">>), Some(Hso(Some("deny"), Some(<<"nested">>)))),
      Doc(Some("allow"), Some(<<"legacy">>), Some(Hso(Some("deny"), None))),
      Doc(Some("deny"), Some(<<"legacy">>), Some(Hso(None, None))),
      Doc(Some("deny"), None, Some(Hso(Some("allow"), None))) }

StdoutSamples ==
    { PlainText(<<>>),
      PlainText(<<Run("\n", 1, 1)>>),
      PlainText(<<Run("x", 1, 4)>>),
      PlainText(<<Run("x", 1, 300)>>),
      PlainText(<<Run("x", 1, 199), Run("e'", 2, 1), Run("x", 1, 9)>>) }
    \cup {JsonText(d) : d \in SampleDocs}

StderrSamples == {<<>>, <<"\n">>, <<" ", "Blocked by test", "\n">>}

\* What a hook process can end with: exit code, stdout, stderr.
ChildOutcomes ==
    {[code |-> 0, stdout |-> o, stderr |-> <<>>] : o \in StdoutSamples}
    \cup {[code |-> c, stdout |-> PlainText(<<>>), stderr |-> e] :
              c \in {1, 2}, e \in StderrSamples}
    \cup {[code |-> 2, stdout |-> JsonText(Doc(Some("allow"), None, None)),
           stderr |-> <<>>]}

\* What handler.handle can return: a ToolOutput (success_for_logging) or a
\* FunctionCallError.
HandlerResults ==
    {Ok([preview |-> <<"out">>, success |-> b]) : b \in BOOLEAN}
    \cup {Err([variant |-> v, text |-> <<"handler failed">>]) :
              v \in {"RespondToModel", "Fatal"}}

-----------------------------------------------------------------------------
(* hooks/executor.rs: execute_single_hook, after the child's output has    *)
(* been collected (lines 139-179).                                         *)

ParsePreview(runs) ==
    LET k == Min(ByteLen(runs), PreviewBytes)
    IN  IF IsCharBoundary(runs, k)
        THEN Err(<<"Parse hook output: ", "invalid hook output", " (got: ",
                   ToString(SliceTo(runs, k)), ")">>)
        ELSE Panic

Exit2Reason(stderr) ==
    IF Trim(stderr) = <<>>
    THEN <<"Hook blocked command (exit code 2)">>
    ELSE Trim(stderr)

CollectOutput(out) ==
    IF out.code = 2
    THEN Ok([hook_specific_output |-> None,
             decision |-> Some("Deny"),
             reason |-> Some(Exit2Reason(out.stderr))])
    ELSE IF out.code # 0
    THEN Err(IF Trim(out.stderr) = <<>>
             THEN <<"Hook exited with status: ", "exit status: ", ToString(out.code)>>
             ELSE <<"Hook failed: ">> \o Trim(out.stderr))
    ELSE IF TrimIsEmpty(out.stdout.runs)
    THEN Ok(DefaultHookOutput)
    ELSE IF IsSome(out.stdout.json) /\ DeserializeOk(Get(out.stdout.json))
    THEN Ok(Deserialize(Get(out.stdout.json)))
    ELSE ParsePreview(out.stdout.runs)

\* Variant of KillOnDrop: the command is built without kill_on_drop(true).
KillOnDropMissing(child) == child

\* kill_on_drop(true): dropping the Child handle kills a running process
KillOnDrop(child) ==
    IF child.st = "running" THEN [st |-> "killed"] ELSE child

(* run_pre_tool_use_hooks, lines 61-86: what the loop does with the result *)
(* of execute_single_hook for one rule.                                    *)

Block(r) == [tag |-> "Block", reason |-> r]
Continue == [tag |-> "Continue"]

\* Variant of IsBlocking: Ask falls into the Allow arm.
IsBlockingDenyOnly(d) == d = "Deny"

IsBlocking(d) == d \in {"Deny", "Ask"}

OnHookError(policy, e) ==
    IF policy = "Deny"
    THEN Block(<<"Hook failed (fail-closed): ">> \o e)
    ELSE Continue

RuleOutcome(hook, res) ==
    IF res.tag = "Ok"
    THEN IF IsBlocking(decision(res.val))
         THEN Block(IF IsSome(reason(res.val))
                    THEN Get(reason(res.val))
                    ELSE <<"Blocked by PreToolUse hook">>)
         ELSE Continue
    ELSE OnHookError(hook.on_failure, res.msg)

-----------------------------------------------------------------------------
(* serde_json::Value, as far as normalize_command_to_string looks into it: *)
(* a scalar, an array of scalars, or an object with the members cmd,       *)
(* command and one other key, each present or not.                         *)

JNull == [t |-> "Null", s |-> <<>>, items |-> <<>>]
JNumber == [t |-> "Number", s |-> <<"1">>, items |-> <<>>]
JString(s) == [t |-> "String", s |-> s, items |-> <<>>]
JArray(items) == [t |-> "Array", s |-> <<>>, items |-> items]

NoMembers == [cmd |-> None, command |-> None, other |-> None]
\* a value that is no object
Plain(v) == [t |-> v.t, s |-> v.s, items |-> v.items, obj |-> NoMembers]
JObject(o) == [t |-> "Object", s |-> <<>>, items |-> <<>>, obj |-> o]

\* Value::as_str
as_str(v) == IF v.t = "String" THEN Some(v.s) ELSE None

\* .iter().filter_map(|value| value.as_str()).collect::<Vec<_>>()
RECURSIVE FilterMapAsStr(_)
FilterMapAsStr(items) ==
    IF items = <<>> THEN <<>>
    ELSE (IF IsSome(as_str(Head(items))) THEN <<Get(as_str(Head(items)))>> ELSE <<>>)
         \o FilterMapAsStr(Tail(items))

\* [&str]::join(" ")
RECURSIVE Join(_)
Join(strs) ==
    IF strs = <<>> THEN <<>>
    ELSE IF Len(strs) = 1 THEN Head(strs)
    ELSE Head(strs) \o <<" ">> \o Join(Tail(strs))

\* Variant of normalize_command_to_string: the alias is taken whenever cmd
\* is a string, a command member that is present being overwritten.
normalizeCmdOverwrites(v) ==
    IF v.t # "Object" THEN v
    ELSE LET cmd_alias == IF IsSome(v.obj.cmd) THEN as_str(Get(v.obj.cmd)) ELSE None
             aliased == IF IsSome(cmd_alias)
                        THEN [v.obj EXCEPT !.command = Some(JString(Get(cmd_alias)))]
                        ELSE v.obj
             joined == IF IsSome(aliased.command) /\ Get(aliased.command).t = "Array"
                       THEN [aliased EXCEPT !.command =
                                Some(JString(Join(FilterMapAsStr(Get(aliased.command).items))))]
                       ELSE aliased
         IN  [v EXCEPT !.obj = joined]

normalize_command_to_string(v) ==
    IF v.t # "Object" THEN v
    ELSE LET cmd_alias == IF IsSome(v.obj.cmd) THEN as_str(Get(v.obj.cmd)) ELSE None
             aliased == IF ~IsSome(v.obj.command) /\ IsSome(cmd_alias)
                        THEN [v.obj EXCEPT !.command = Some(JString(Get(cmd_alias)))]
                        ELSE v.obj
             joined == IF IsSome(aliased.command) /\ Get(aliased.command).t = "Array"
                       THEN [aliased EXCEPT !.command =
                                Some(JString(Join(FilterMapAsStr(Get(aliased.command).items))))]
                       ELSE aliased
         IN  [v EXCEPT !.obj = joined]

\* What a member of the arguments object can hold.
MemberSamples ==
    { JString(<<"x">>),
      JString(<<"echo hello">>),
      JNumber,
      JArray(<<>>),
      JArray(<<JString(<<"a">>)>>),
      JArray(<<JString(<<"a">>), JString(<<"b">>)>>),
      JArray(<<JString(<<"a">>), JNumber, JString(<<"b">>)>>) }

OptionOf(S) == {None} \cup {Some(x) : x \in S}

ValueSamples ==
    {JObject(o) : o \in [cmd : OptionOf(MemberSamples),
                         command : OptionOf(MemberSamples),
                         other : OptionOf({JString(<<"x">>), JArray(<<JString(<<"a">>)>>)})]}
    \cup {Plain(JNull), Plain(JString(<<"x">>)),
          Plain(JArray(<<JString(<<"a">>), JString(<<"b">>)>>))}

-----------------------------------------------------------------------------
(* ToolPayload, and the two forms hooks are given it in                    *)

\* What a variant of ToolPayload holds: a text (arguments, raw_arguments or
\* input) with what serde_json::from_str reads it as, or the command of
\* LocalShell's params.
ArgumentsJson(v) == [text |-> <<"{..}">>, json |-> Some(v), command |-> <<>>]
NotJson == [text |-> <<"{">>, json |-> None, command |-> <<>>]

\* Function and Mcp: the JSON text of {"command": ["a", "b"]}, or no JSON;
\* LocalShell: params.command; Custom: input
PayloadContents(kind) ==
    LET object == JObject([NoMembers EXCEPT
                    !.command = Some(JArray(<<JString(<<"a">>), JString(<<"b">>)>>))])
    IN  CASE kind \in {"Function", "Mcp"} -> {ArgumentsJson(object), NotJson}
          [] kind = "LocalShell" ->
               {[text |-> <<>>, json |-> None, command |-> << <<"ls">>, <<"-l">> >>]}
          [] kind = "Custom" ->
               {[text |-> <<"x">>, json |-> None, command |-> <<>>]}

Invocations ==
    {i \in [tool_name : ToolNames, payload : PayloadKinds,
            arguments : UNION {PayloadContents(k) : k \in PayloadKinds}] :
       i.arguments \in PayloadContents(i.payload)}

\* registry.rs:414-436
extract_tool_input_for_hooks(kind, a) ==
    CASE kind = "Function" ->
           IF IsSome(a.json) THEN normalize_command_to_string(Get(a.json))
           ELSE Plain(JNull)
      [] kind = "LocalShell" ->
           JObject([NoMembers EXCEPT !.command = Some(JString(Join(a.command)))])
      [] kind = "Mcp" -> IF IsSome(a.json) THEN Get(a.json) ELSE Plain(JNull)
      [] kind = "Custom" -> Plain(JString(a.text))

\* registry.rs:330-360 impl From<&ToolPayload> for HookToolInput: each
\* variant is given clones of what the payload holds
HookToolInputFrom(kind, a) ==
    [variant |-> kind, text |-> a.text, json |-> a.json, command |-> a.command]

-----------------------------------------------------------------------------
(* std::time::Duration and the duration_ms of an event                     *)

\* A Duration in whole microseconds; `huge` stands for one whose count of
\* milliseconds is above u64::MAX, micros being what it is above by.
Durations ==
    {[huge |-> FALSE, micros |-> 0], [huge |-> FALSE, micros |-> 1999],
     [huge |-> TRUE, micros |-> 1999]}

\* Duration::as_millis, a u128
as_millis(d) == [huge |-> d.huge, n |-> d.micros \div 1000]

\* u64::try_from(u128)
u64_try_from(m) == IF m.huge THEN None ELSE Some([max |-> FALSE, n |-> m.n])

\* a u64 is [max, n]: u64::MAX, or the number n
U64Max == [max |-> TRUE, n |-> 0]

\* Variant of duration_ms: the count is cast with `as u64`, which wraps.
durationMsWraps(d) == [max |-> FALSE, n |-> as_millis(d).n]

\* registry.rs:400 u64::try_from(dispatch.duration.as_millis()).unwrap_or(u64::MAX)
duration_ms(d) ==
    IF IsSome(u64_try_from(as_millis(d))) THEN Get(u64_try_from(as_millis(d)))
    ELSE U64Max

-----------------------------------------------------------------------------
(* std::collections::HashMap, as a set of entries with distinct keys       *)

\* Variant of HashMapInsert: an entry that is present is kept.
hashMapInsertKeepsFirst(m, k, v) ==
    IF \E e \in m : e.key = k THEN m ELSE m \cup {[key |-> k, val |-> v]}

\* HashMap::insert
HashMapInsert(m, k, v) ==
    {e \in m : e.key # k} \cup {[key |-> k, val |-> v]}

\* HashMap::get
HashMapGet(m, k) ==
    IF \E e \in m : e.key = k THEN Some((CHOOSE e \in m : e.key = k).val) ELSE None

ConfiguredToolSpec(spec, supports_parallel_tool_calls) ==
    [spec |-> spec, supports_parallel_tool_calls |-> supports_parallel_tool_calls]

-----------------------------------------------------------------------------
(* Initial state: a built registry, a loaded configuration, one invocation *)

NoRet == [tag |-> "None"]

\* dispatch has not been called
NotStarted ==
    /\ pc = "start"
    /\ is_mutating = FALSE
    /\ tool_input = None
    /\ duration = None
    /\ gateAwaited = FALSE
    /\ hookPc = "idle"
    /\ idx = 0
    /\ toWrite = 0
    /\ pipe = 0
    /\ children = [i \in 1..Len(hooksCfg) |-> [st |-> "none"]]
    /\ trace = <<>>
    /\ hookResult = None
    /\ hookRet = NoRet
    /\ otel = <<>>
    /\ handleCalls = 0
    /\ output_cell = None
    /\ result = NoRet
    /\ afterEvents = <<>>
    /\ ret = NoRet

\* the components that are modelled by themselves, at rest
MatcherIdle == m_pattern = <<>> /\ m_tool_name = <<>> /\ m_result = NoRet
NormalizeIdle == value_in = None /\ value = Plain(JNull)
BuilderIdle == handlers = {} /\ specs = <<>> /\ builderCalls = <<>> /\ built = None
TurnIdle == calls = <<>>

DispatchIdle ==
    /\ inv = [tool_name |-> <<"x">>, payload |-> "Function", arguments |-> NotJson]
    /\ hooksCfg = <<>>
    /\ inputChunks = PipeCapacity
    /\ NotStarted

Init ==
    /\ inv \in Invocations
    /\ hooksCfg \in RuleSeqs
    /\ inputChunks \in InputSizes
    /\ NotStarted
    /\ gateReady = FALSE
    /\ MatcherIdle
    /\ NormalizeIdle
    /\ BuilderIdle
    /\ TurnIdle

-----------------------------------------------------------------------------
(* hooks/executor.rs: run_pre_tool_use_hooks and execute_single_hook       *)

AtRule == hookPc = "loop" /\ idx <= Len(hooksCfg)

\* lines 30-32
HookSkip ==
    /\ AtRule
    /\ ~matches_tool(hooksCfg[idx].matcher, inv.tool_name)
    /\ idx' = idx + 1
    /\ hookResult' = None
    /\ UNCHANGED <<hookPc, toWrite, pipe, children, trace, hookRet>>
    /\ UNCHANGED <<dispatchVars, otherVars, gateReady>>

\* Variant of HookEmptyCommand: the empty command is an error whatever the
\* rule's on_failure.
HookEmptyCommandAlwaysDenies ==
    /\ AtRule
    /\ matches_tool(hooksCfg[idx].matcher, inv.tool_name)
    /\ hooksCfg[idx].command = <<>>
    /\ hookResult' = Some([rule |-> idx, child |-> children[idx],
                            res |-> [tag |-> "EmptyCommand"]])
    /\ hookRet' = Err(<<"Hook misconfigured: empty command">>)
    /\ hookPc' = "returned"
    /\ trace' = Append(trace, [rule |-> idx, outcome |-> "Block"])
    /\ UNCHANGED <<idx, toWrite, pipe, children>>
    /\ UNCHANGED <<dispatchVars, otherVars, gateReady>>

\* lines 35-46
HookEmptyCommand ==
    /\ AtRule
    /\ matches_tool(hooksCfg[idx].matcher, inv.tool_name)
    /\ hooksCfg[idx].command = <<>>
    /\ hookResult' = Some([rule |-> idx, child |-> children[idx],
                            res |-> [tag |-> "EmptyCommand"]])
    /\ IF hooksCfg[idx].on_failure = "Deny"
       THEN /\ hookRet' = Err(<<"Hook misconfigured: empty command">>)
            /\ hookPc' = "returned"
            /\ trace' = Append(trace, [rule |-> idx, outcome |-> "Block"])
            /\ UNCHANGED idx
       ELSE /\ idx' = idx + 1
            /\ trace' = Append(trace, [rule |-> idx, outcome |-> "Continue"])
            /\ UNCHANGED <<hookPc, hookRet>>
    /\ UNCHANGED <<toWrite, pipe, children>>
    /\ UNCHANGED <<dispatchVars, otherVars, gateReady>>

\* An exited process whose Child handle is gone has been reaped: its exit
\* status and the contents of its pipes are no longer held anywhere.
Reaped(child) == [st |-> child.st]

\* Variant of Resolve: a blocking rule records its reason but the loop goes
\* on to the next rule instead of returning.
ResolveWithoutReturn(res, kids) ==
    /\ hookResult' = Some([rule |-> idx, child |-> children[idx], res |-> res])
    /\ children' = [kids EXCEPT ![idx] = [st |-> @.st]]
    /\ toWrite' = 0
    /\ pipe' = 0
    /\ pc' = IF res.tag = "Panic" THEN "panicked" ELSE pc
    /\ hookPc' = IF res.tag = "Panic" THEN "panicked" ELSE "loop"
    /\ idx' = IF res.tag = "Panic" THEN idx ELSE idx + 1
    /\ IF res.tag # "Panic" /\ RuleOutcome(hooksCfg[idx], res).tag = "Block"
       THEN /\ hookRet' = Err(RuleOutcome(hooksCfg[idx], res).reason)
            /\ trace' = Append(trace, [rule |-> idx, outcome |-> "Block"])
       ELSE /\ UNCHANGED hookRet
            /\ trace' = Append(trace, [rule |-> idx, outcome |->
                            IF res.tag = "Panic" THEN "Panic" ELSE "Continue"])
    /\ UNCHANGED <<tool_input, duration, is_mutating, gateAwaited, otel, handleCalls, output_cell,
                   result, afterEvents, ret>>
    /\ UNCHANGED <<otherVars, gateReady>>

\* `result` is a local of one iteration of the loop: the next iteration, and
\* the return, drop it.
\* execute_single_hook has returned res for the rule at idx, leaving the
\* processes as kids: lines 61-86 (a panic unwinds through dispatch).
Resolve(res, kids) ==
    /\ hookResult' = Some([rule |-> idx, child |-> children[idx], res |-> res])
    /\ children' = [kids EXCEPT ![idx] = Reaped(@)]
    /\ toWrite' = 0
    /\ pipe' = 0
    /\ IF res.tag = "Panic"
       THEN /\ hookPc' = "panicked"
            /\ pc' = "panicked"
            /\ trace' = Append(trace, [rule |-> idx, outcome |-> "Panic"])
            /\ UNCHANGED <<idx, hookRet>>
       ELSE /\ pc' = pc
            /\ IF RuleOutcome(hooksCfg[idx], res).tag = "Block"
               THEN /\ hookRet' = Err(RuleOutcome(hooksCfg[idx], res).reason)
                    /\ hookPc' = "returned"
                    /\ trace' = Append(trace, [rule |-> idx, outcome |-> "Block"])
                    /\ UNCHANGED idx
               ELSE /\ idx' = idx + 1
                    /\ hookPc' = "loop"
                    /\ trace' = Append(trace, [rule |-> idx, outcome |-> "Continue"])
                    /\ UNCHANGED hookRet
    /\ UNCHANGED <<tool_input, duration, is_mutating, gateAwaited, otel, handleCalls, output_cell,
                   result, afterEvents, ret>>
    /\ UNCHANGED <<otherVars, gateReady>>

\* Variant of CanSpawn: the rule is run without its matcher being asked.
CanSpawnUnmatched ==
    /\ AtRule
    /\ hooksCfg[idx].command # <<>>

CanSpawn ==
    /\ AtRule
    /\ matches_tool(hooksCfg[idx].matcher, inv.tool_name)
    /\ hooksCfg[idx].command # <<>>

\* lines 116-124, spawn succeeded; write_all starts (line 127)
HookSpawn ==
    /\ CanSpawn
    /\ children' = [children EXCEPT ![idx] = [st |-> "running"]]
    /\ toWrite' = inputChunks
    /\ pipe' = 0
    /\ hookPc' = "write"
    /\ hookResult' = None
    /\ UNCHANGED <<idx, trace, hookRet>>
    /\ UNCHANGED <<dispatchVars, otherVars, gateReady>>

\* line 124, spawn failed
HookSpawnFail ==
    /\ CanSpawn
    /\ Resolve(Err(<<"Spawn hook: ", "No such file or directory">>), children)

\* lines 128-130: write_all makes progress while the pipe has room and its
\* read end is open; after the last chunk stdin is dropped (EOF) and the
\* timeout around wait_with_output starts (line 136)
HookWrite ==
    /\ hookPc = "write"
    /\ children[idx].st = "running"
    /\ pipe < PipeCapacity
    /\ toWrite' = toWrite - 1
    /\ pipe' = pipe + 1
    /\ hookPc' = IF toWrite = 1 THEN "wait" ELSE "write"
    /\ UNCHANGED <<idx, children, trace, hookResult, hookRet>>
    /\ UNCHANGED <<dispatchVars, otherVars, gateReady>>

\* line 131: the read end is closed (the process has exited): broken pipe
HookWriteFail ==
    /\ hookPc = "write"
    /\ children[idx].st = "exited"
    /\ Resolve(Err(<<"Write to hook stdin: ", "Broken pipe">>),
               [children EXCEPT ![idx] = KillOnDrop(@)])

\* lines 136, 139-179: the process has exited and its output is collected
HookWaitDone ==
    /\ hookPc = "wait"
    /\ children[idx].st = "exited"
    /\ Resolve(CollectOutput(children[idx].out), children)

\* line 180
HookWaitFail ==
    /\ hookPc = "wait"
    /\ Resolve(Err(<<"Wait for hook: ", "Input/output error">>),
               [children EXCEPT ![idx] = KillOnDrop(@)])

\* lines 181-184: the timer fires before the process has exited
HookTimeout ==
    /\ hookPc = "wait"
    /\ children[idx].st = "running"
    /\ Resolve(Err(<<"Hook timed out after ",
                     ToString(hooksCfg[idx].timeout_sec), "s">>),
               [children EXCEPT ![idx] = KillOnDrop(@)])

\* line 88
HookLoopEnd ==
    /\ hookPc = "loop"
    /\ idx > Len(hooksCfg)
    /\ hookRet' = [tag |-> "Ok"]
    /\ hookPc' = "returned"
    /\ hookResult' = None
    /\ UNCHANGED <<idx, toWrite, pipe, children, trace>>
    /\ UNCHANGED <<dispatchVars, otherVars, gateReady>>

(* The hook process (environment) *)

\* the process reads some of its stdin
ChildRead ==
    /\ hookPc \in {"write", "wait"}
    /\ children[idx].st = "running"
    /\ pipe > 0
    /\ pipe' = pipe - 1
    /\ UNCHANGED <<hookPc, idx, toWrite, children, trace, hookResult, hookRet>>
    /\ UNCHANGED <<dispatchVars, otherVars, gateReady>>

\* a running process exits, whether or not it has read its stdin
ChildExit ==
    /\ \E i \in DOMAIN children, out \in ChildOutcomes :
          /\ children[i].st = "running"
          /\ children' = [children EXCEPT ![i] = [st |-> "exited", out |-> out]]
    /\ UNCHANGED <<hookPc, idx, toWrite, pipe, trace, hookResult, hookRet>>
    /\ UNCHANGED <<dispatchVars, otherVars, gateReady>>

-----------------------------------------------------------------------------
(* tools/registry.rs: ToolRegistry::dispatch                               *)

\* ToolRegistry::handler
handler(name) == IF name \in DOMAIN Registry THEN Some(Registry[name]) ELSE None

\* Variant of matches_kind: a Function handler takes every payload that is
\* not an Mcp one.
matchesKindLoose(kind, payload) ==
    \/ kind = "Function" /\ payload # "Mcp"
    \/ kind = "Mcp" /\ payload = "Mcp"

\* ToolHandler::matches_kind
matches_kind(kind, payload) ==
    \/ kind = "Function" /\ payload = "Function"
    \/ kind = "Mcp" /\ payload = "Mcp"

\* Variant of unsupported_tool_call_message: one text for every payload.
unsupportedMessageKindBlind(payload, tool_name) ==
    <<"unsupported call: ">> \o tool_name

unsupported_tool_call_message(payload, tool_name) ==
    IF payload = "Custom"
    THEN <<"unsupported custom tool call: ">> \o tool_name
    ELSE <<"unsupported call: ">> \o tool_name

\* Variant of ToolResult: every record is marked successful.
toolResultMarksSuccess(elapsed, success, message) ==
    [duration |-> elapsed, success |-> TRUE, message |-> message]

\* otel.tool_result_with_tags(..., duration, success, message, ...)
ToolResult(elapsed, success, message) ==
    [duration |-> elapsed, success |-> success, message |-> message]

FunctionCallError(variant, text) ==
    [tag |-> "Err", variant |-> variant, text |-> text]

\* lines 100-116
DispatchUnknownTool ==
    /\ pc = "start"
    /\ handler(inv.tool_name) = None
    /\ otel' = Append(otel, ToolResult("ZERO", FALSE,
                 unsupported_tool_call_message(inv.payload, inv.tool_name)))
    /\ ret' = FunctionCallError("RespondToModel",
                 unsupported_tool_call_message(inv.payload, inv.tool_name))
    /\ pc' = "done"
    /\ UNCHANGED <<tool_input, duration, is_mutating, gateAwaited, handleCalls, output_cell, result,
                   afterEvents>>
    /\ UNCHANGED <<engineVars, otherVars, gateReady>>

\* lines 118-130
DispatchKindMismatch ==
    /\ pc = "start"
    /\ IsSome(handler(inv.tool_name))
    /\ ~matches_kind(Get(handler(inv.tool_name)), inv.payload)
    /\ otel' = Append(otel, ToolResult("ZERO", FALSE,
                 <<"tool ">> \o inv.tool_name \o <<" invoked with incompatible payload">>))
    /\ ret' = FunctionCallError("Fatal",
                 <<"tool ">> \o inv.tool_name \o <<" invoked with incompatible payload">>)
    /\ pc' = "done"
    /\ UNCHANGED <<tool_input, duration, is_mutating, gateAwaited, handleCalls, output_cell, result,
                   afterEvents>>
    /\ UNCHANGED <<engineVars, otherVars, gateReady>>

\* ToolHandler::is_mutating as the trait provides it: what it can answer
DefaultIsMutating == {FALSE}

\* line 132: a handler's own is_mutating answers either way for an
\* invocation, the provided one as the trait has it
DispatchClassify ==
    /\ pc = "start"
    /\ IsSome(handler(inv.tool_name))
    /\ matches_kind(Get(handler(inv.tool_name)), inv.payload)
    /\ \E m \in (IF inv.tool_name \in OwnIsMutating
                  THEN BOOLEAN ELSE DefaultIsMutating) : is_mutating' = m
    /\ pc' = "prehooks"
    /\ UNCHANGED <<tool_input, duration, gateAwaited, otel, handleCalls,
                   output_cell, result, afterEvents, ret>>
    /\ UNCHANGED <<engineVars, otherVars, gateReady>>

\* lines 137-159: rules are configured, run_pre_tool_use_hooks is called
DispatchRunHooks ==
    /\ pc = "prehooks"
    /\ hooksCfg # <<>>
    /\ tool_input' = Some(extract_tool_input_for_hooks(inv.payload, inv.arguments))
    /\ pc' = "hooks"
    /\ hookPc' = "loop"
    /\ idx' = 1
    /\ UNCHANGED <<toWrite, pipe, children, trace, hookResult, hookRet>>
    /\ UNCHANGED <<duration, is_mutating, gateAwaited, otel, handleCalls, output_cell,
                   result, afterEvents, ret>>
    /\ UNCHANGED <<otherVars, gateReady>>

\* Variant of DispatchNoHooks: arguments that are no JSON skip the hooks too.
DispatchNoHooksOnBadArguments ==
    /\ pc = "prehooks"
    /\ hooksCfg = <<>> \/ inv.arguments.json = None
    /\ pc' = "exec"
    /\ UNCHANGED <<tool_input, duration, is_mutating, gateAwaited, otel, handleCalls,
                   output_cell, result, afterEvents, ret>>
    /\ UNCHANGED <<engineVars, otherVars, gateReady>>

\* line 137: no rule is configured
DispatchNoHooks ==
    /\ pc = "prehooks"
    /\ hooksCfg = <<>>
    /\ pc' = "exec"
    /\ UNCHANGED <<tool_input, duration, is_mutating, gateAwaited, otel, handleCalls, output_cell,
                   result, afterEvents, ret>>
    /\ UNCHANGED <<engineVars, otherVars, gateReady>>

\* Variant of DispatchHooksBlocked: the block is logged but dispatch goes on
\* to the execution of the tool.
DispatchHooksBlockedFallsThrough ==
    /\ pc = "hooks"
    /\ hookPc = "returned"
    /\ hookRet.tag = "Err"
    /\ otel' = Append(otel, [duration |-> "elapsed", success |-> FALSE,
                             message |-> hookRet.msg])
    /\ pc' = "exec"
    /\ hookResult' = None
    /\ UNCHANGED <<tool_input, duration, is_mutating, gateAwaited, handleCalls, output_cell, result,
                   afterEvents, ret>>
    /\ UNCHANGED <<hookPc, idx, toWrite, pipe, children, trace, hookRet>>
    /\ UNCHANGED <<otherVars, gateReady>>

\* lines 160-171; the frame of run_pre_tool_use_hooks, with its local
\* `result`, is gone once dispatch resumes
DispatchHooksBlocked ==
    /\ pc = "hooks"
    /\ hookPc = "returned"
    /\ hookRet.tag = "Err"
    /\ otel' = Append(otel, ToolResult("elapsed", FALSE, hookRet.msg))
    /\ ret' = FunctionCallError("RespondToModel", hookRet.msg)
    /\ pc' = "done"
    /\ hookResult' = None
    /\ UNCHANGED <<tool_input, duration, is_mutating, gateAwaited, handleCalls, output_cell, result,
                   afterEvents>>
    /\ UNCHANGED <<hookPc, idx, toWrite, pipe, children, trace, hookRet>>
    /\ UNCHANGED <<otherVars, gateReady>>

\* lines 172-178
DispatchHooksPassed ==
    /\ pc = "hooks"
    /\ hookPc = "returned"
    /\ hookRet.tag = "Ok"
    /\ pc' = "exec"
    /\ hookResult' = None
    /\ UNCHANGED <<tool_input, duration, is_mutating, gateAwaited, otel, handleCalls, output_cell,
                   result, afterEvents, ret>>
    /\ UNCHANGED <<hookPc, idx, toWrite, pipe, children, trace, hookRet>>
    /\ UNCHANGED <<otherVars, gateReady>>

\* lines 188-193: the closure starts; a mutating call awaits the gate
ExecEnter ==
    /\ pc = "exec"
    /\ IF is_mutating
       THEN pc' = "gate" /\ gateAwaited' = TRUE
       ELSE pc' = "handle" /\ UNCHANGED gateAwaited
    /\ UNCHANGED <<tool_input, duration, is_mutating, otel, handleCalls, output_cell, result,
                   afterEvents, ret>>
    /\ UNCHANGED <<engineVars, otherVars, gateReady>>

\* line 191: wait_ready() returns
GatePass ==
    /\ pc = "gate"
    /\ gateReady
    /\ pc' = "handle"
    /\ UNCHANGED <<tool_input, duration, is_mutating, gateAwaited, otel, handleCalls, output_cell,
                   result, afterEvents, ret>>
    /\ UNCHANGED <<engineVars, otherVars, gateReady>>

\* the gate is marked ready by its owner, outside dispatch; the flag is read
\* at line 191 only, so openings are distinguished around that point only
GateOpen ==
    /\ ~gateReady
    /\ pc \in {"exec", "gate"}
    /\ gateReady' = TRUE
    /\ UNCHANGED <<dispatchVars, engineVars, otherVars>>

\* line 194: handler.handle is invoked
HandlerCall ==
    /\ pc = "handle"
    /\ handleCalls' = handleCalls + 1
    /\ pc' = "handling"
    /\ UNCHANGED <<tool_input, duration, is_mutating, gateAwaited, otel, output_cell, result,
                   afterEvents, ret>>
    /\ UNCHANGED <<engineVars, otherVars, gateReady>>

\* Variant of HandlerReturn: the Ok arm reports success without putting the
\* output into the cell.
HandlerReturnDropsOutput ==
    /\ pc = "handling"
    /\ \E r \in HandlerResults :
          IF r.tag = "Ok"
          THEN /\ UNCHANGED output_cell
               /\ result' = Ok([preview |-> r.val.preview, success |-> r.val.success])
               /\ otel' = Append(otel, ToolResult("elapsed", r.val.success, r.val.preview))
          ELSE /\ UNCHANGED output_cell
               /\ result' = r
               /\ otel' = Append(otel, ToolResult("elapsed", FALSE, r.msg.text))
    /\ pc' = "after"
    /\ UNCHANGED <<tool_input, duration, is_mutating, gateAwaited, handleCalls, afterEvents, ret>>
    /\ UNCHANGED <<engineVars, otherVars, gateReady>>

\* lines 194-207: handle returns; on Ok the output goes into the cell; the
\* telemetry wrapper records the result of the closure
HandlerReturn ==
    /\ pc = "handling"
    /\ \E r \in HandlerResults :
          IF r.tag = "Ok"
          THEN /\ output_cell' = Some(r.val)
               /\ result' = Ok([preview |-> r.val.preview, success |-> r.val.success])
               /\ otel' = Append(otel, ToolResult("elapsed", r.val.success, r.val.preview))
          ELSE /\ UNCHANGED output_cell
               /\ result' = r
               /\ otel' = Append(otel, ToolResult("elapsed", FALSE, r.msg.text))
    /\ pc' = "after"
    /\ UNCHANGED <<tool_input, duration, is_mutating, gateAwaited, handleCalls, afterEvents, ret>>
    /\ UNCHANGED <<engineVars, otherVars, gateReady>>

\* lines 208-221 and dispatch_after_tool_use_hook (380-410)
DispatchAfterHook ==
    /\ pc = "after"
    /\ \E elapsed \in Durations :
          /\ duration' = Some(elapsed)
          /\ afterEvents' = Append(afterEvents,
                [tool_name |-> inv.tool_name,
                 tool_input |-> HookToolInputFrom(inv.payload, inv.arguments),
                 executed |-> TRUE,
                 success |-> IF result.tag = "Ok" THEN result.val.success ELSE FALSE,
                 duration_ms |-> duration_ms(elapsed),
                 mutating |-> is_mutating,
                 output_preview |-> IF result.tag = "Ok" THEN result.val.preview
                                    ELSE result.msg.text])
    /\ pc' = "respond"
    /\ UNCHANGED <<tool_input, is_mutating, gateAwaited, otel, handleCalls, output_cell,
                   result, ret>>
    /\ UNCHANGED <<engineVars, otherVars, gateReady>>

\* Variant of DispatchRespond: a handler error is handed to the model as a
\* recoverable error, whatever its variant.
DispatchRespondWrapsError ==
    /\ pc = "respond"
    /\ IF result.tag = "Ok"
       THEN IF IsSome(output_cell)
            THEN /\ ret' = Ok([output |-> Get(output_cell), payload |-> inv.payload])
                 /\ output_cell' = None
            ELSE /\ ret' = FunctionCallError("Fatal", <<"tool produced no output">>)
                 /\ UNCHANGED output_cell
       ELSE /\ ret' = FunctionCallError("RespondToModel", result.msg.text)
            /\ UNCHANGED output_cell
    /\ pc' = "done"
    /\ UNCHANGED <<tool_input, duration, is_mutating, gateAwaited, otel, handleCalls, result,
                   afterEvents>>
    /\ UNCHANGED <<engineVars, otherVars, gateReady>>

\* lines 223-232
DispatchRespond ==
    /\ pc = "respond"
    /\ IF result.tag = "Ok"
       THEN IF IsSome(output_cell)
            THEN /\ ret' = Ok([output |-> Get(output_cell), payload |-> inv.payload])
                 /\ output_cell' = None
            ELSE /\ ret' = FunctionCallError("Fatal", <<"tool produced no output">>)
                 /\ UNCHANGED output_cell
       ELSE /\ ret' = FunctionCallError(result.msg.variant, result.msg.text)
            /\ UNCHANGED output_cell
    /\ pc' = "done"
    /\ UNCHANGED <<tool_input, duration, is_mutating, gateAwaited, otel, handleCalls, result,
                   afterEvents>>
    /\ UNCHANGED <<engineVars, otherVars, gateReady>>

-----------------------------------------------------------------------------

\* The steps run_pre_tool_use_hooks takes by itself or by its timer, as
\* opposed to those that need the hook process to act (ChildRead, ChildExit)
\* or a fault of the platform (HookSpawnFail, HookWaitFail).
EngineProgress ==
    \/ HookSkip \/ HookEmptyCommand \/ HookSpawn
    \/ HookWrite \/ HookWriteFail \/ HookWaitDone
    \/ HookTimeout \/ HookLoopEnd

Next ==
    \/ DispatchUnknownTool
    \/ DispatchKindMismatch
    \/ DispatchClassify
    \/ DispatchRunHooks
    \/ DispatchNoHooks
    \/ HookSkip
    \/ HookEmptyCommand
    \/ HookSpawn
    \/ HookSpawnFail
    \/ HookWrite
    \/ HookWriteFail
    \/ HookWaitDone
    \/ HookWaitFail
    \/ HookTimeout
    \/ HookLoopEnd
    \/ ChildRead
    \/ ChildExit
    \/ DispatchHooksBlocked
    \/ DispatchHooksPassed
    \/ ExecEnter
    \/ GatePass
    \/ GateOpen
    \/ HandlerCall
    \/ HandlerReturn
    \/ DispatchAfterHook
    \/ DispatchRespond

Spec == Init /\ [][Next]_vars

\* The async runtime keeps polling a future that can make progress, and a
\* timer that has been armed fires; nothing obliges a hook process to read
\* its stdin or to exit.
FairSpec == Spec /\ WF_vars(EngineProgress)

-----------------------------------------------------------------------------
(* run_pre_tool_use_hooks called by itself, as the tests of executor.rs do: *)
(* for any configuration, the empty one included.                          *)

InitEngine ==
    /\ inv \in [tool_name : ToolNames, payload : {"Function"}, arguments : {NotJson}]
    /\ hooksCfg \in RuleSeqs
    /\ inputChunks \in InputSizes
    /\ pc = "hooks"
    /\ hookPc = "loop"
    /\ idx = 1
    /\ is_mutating = FALSE
    /\ tool_input = Some(Plain(JNull))
    /\ duration = None
    /\ gateAwaited = FALSE
    /\ toWrite = 0
    /\ pipe = 0
    /\ children = [i \in 1..Len(hooksCfg) |-> [st |-> "none"]]
    /\ trace = <<>>
    /\ hookResult = None
    /\ hookRet = NoRet
    /\ otel = <<>>
    /\ handleCalls = 0
    /\ output_cell = None
    /\ result = NoRet
    /\ afterEvents = <<>>
    /\ ret = NoRet
    /\ gateReady = FALSE
    /\ MatcherIdle
    /\ NormalizeIdle
    /\ BuilderIdle
    /\ TurnIdle

NextEngine ==
    \/ HookSkip
    \/ HookEmptyCommand
    \/ HookSpawn
    \/ HookSpawnFail
    \/ HookWrite
    \/ HookWriteFail
    \/ HookWaitDone
    \/ HookWaitFail
    \/ HookTimeout
    \/ HookLoopEnd
    \/ ChildRead
    \/ ChildExit

SpecEngine == InitEngine /\ [][NextEngine]_vars

-----------------------------------------------------------------------------
(* hooks/matcher.rs: matches_tool called on any pattern and tool name      *)

MaxLen == 3

PatternChars == {"s", "E'", "*", "?"}
NameChars == {"s", "S", "e'"}

StringsOver(chars) == UNION {[1..n -> chars] : n \in 0..MaxLen}

InitMatcher ==
    /\ m_pattern \in StringsOver(PatternChars)
    /\ m_tool_name \in StringsOver(NameChars)
    /\ m_result = NoRet
    /\ DispatchIdle
    /\ gateReady = FALSE
    /\ NormalizeIdle
    /\ BuilderIdle
    /\ TurnIdle

MatchesToolCall ==
    /\ m_result = NoRet
    /\ m_result' = Ok(matches_tool(m_pattern, m_tool_name))
    /\ UNCHANGED <<m_pattern, m_tool_name>>
    /\ UNCHANGED <<dispatchVars, engineVars, inputVars, gateReady>>
    /\ UNCHANGED <<normalizeVars, builderVars, turnVars>>

SpecMatcher == InitMatcher /\ [][MatchesToolCall]_vars

-----------------------------------------------------------------------------
(* tools/registry.rs: normalize_command_to_string called on any value      *)

InitNormalize ==
    /\ value \in ValueSamples
    /\ value_in = None
    /\ DispatchIdle
    /\ gateReady = FALSE
    /\ MatcherIdle
    /\ BuilderIdle
    /\ TurnIdle

NormalizeCall ==
    /\ value_in = None
    /\ value_in' = Some(value)
    /\ value' = normalize_command_to_string(value)
    /\ UNCHANGED <<dispatchVars, engineVars, inputVars, gateReady>>
    /\ UNCHANGED <<matcherVars, builderVars, turnVars>>

SpecNormalize == InitNormalize /\ [][NormalizeCall]_vars

-----------------------------------------------------------------------------
(* tools/registry.rs: ToolRegistryBuilder                                  *)

MaxBuilderCalls == 3

HandlerNames == {"shell", "apply_patch"}
Handlers == {"h1", "h2"}
ToolSpecs == {"spec1", "spec2"}

\* ToolRegistryBuilder::new
InitBuilder ==
    /\ handlers = {}
    /\ specs = <<>>
    /\ builderCalls = <<>>
    /\ built = None
    /\ DispatchIdle
    /\ gateReady = FALSE
    /\ MatcherIdle
    /\ NormalizeIdle
    /\ TurnIdle

\* build takes the builder by value: no call follows it
BuilderLive == built = None /\ Len(builderCalls) < MaxBuilderCalls

push_spec_with_parallel_support(spec, supports_parallel_tool_calls) ==
    /\ BuilderLive
    /\ specs' = Append(specs, ConfiguredToolSpec(spec, supports_parallel_tool_calls))
    /\ builderCalls' = Append(builderCalls,
          [op |-> "push_spec", name |-> spec,
           arg |-> IF supports_parallel_tool_calls THEN "true" ELSE "false"])
    /\ UNCHANGED <<handlers, built>>
    /\ UNCHANGED <<dispatchVars, engineVars, inputVars, gateReady>>
    /\ UNCHANGED <<matcherVars, normalizeVars, turnVars>>

push_spec(spec) == push_spec_with_parallel_support(spec, FALSE)

register_handler(name, h) ==
    /\ BuilderLive
    /\ handlers' = HashMapInsert(handlers, name, h)
    /\ builderCalls' = Append(builderCalls,
          [op |-> "register_handler", name |-> name, arg |-> h])
    /\ UNCHANGED <<specs, built>>
    /\ UNCHANGED <<dispatchVars, engineVars, inputVars, gateReady>>
    /\ UNCHANGED <<matcherVars, normalizeVars, turnVars>>

\* build, and ToolRegistry::new
build ==
    /\ built = None
    /\ built' = Some([specs |-> specs, registry |-> [handlers |-> handlers]])
    /\ UNCHANGED <<handlers, specs, builderCalls>>
    /\ UNCHANGED <<dispatchVars, engineVars, inputVars, gateReady>>
    /\ UNCHANGED <<matcherVars, normalizeVars, turnVars>>

\* ToolRegistry::handler on the registry that was built
RegistryHandler(registry, name) == HashMapGet(registry.handlers, name)

PushSpec == \E sp \in ToolSpecs : push_spec(sp)
PushSpecWithParallelSupport ==
    \E sp \in ToolSpecs : push_spec_with_parallel_support(sp, TRUE)
RegisterHandler == \E n \in HandlerNames, h \in Handlers : register_handler(n, h)

NextBuilder ==
    \/ PushSpec
    \/ PushSpecWithParallelSupport
    \/ RegisterHandler
    \/ build

SpecBuilder == InitBuilder /\ [][NextBuilder]_vars

-----------------------------------------------------------------------------
(* tools/registry.rs: several dispatch calls running concurrently on one   *)
(* turn, each a task of its own; they share the turn's tool_call_gate.     *)
(* Each call is one that passed the lookup, the kind check and the hooks.  *)

MaxCalls == 2

CallIds == 1..MaxCalls

\* what the payloads of the calls and the outputs of their handlers are
TurnPayloads == {"p1", "p2"}
TurnOutputs == {"o1", "o2"}

\* ToolOutput::into_response(&call_id, &payload)
into_response(output, call_id, payload) ==
    [call_id |-> call_id, output |-> output, payload |-> payload]

\* Each call has the locals of its own dispatch: call_id_owned,
\* payload_for_response, output_cell and result (lines 82, 84, 175, 179);
\* handled is the history of what its handler invocation returned.
InitTurn ==
    /\ calls \in [CallIds ->
                   [pc : {"start"}, is_mutating : {FALSE}, gateAwaited : {FALSE},
                    readyAtHandle : {FALSE}, call_id : CallIds,
                    payload : TurnPayloads, output_cell : {None},
                    handled : {None}, result : {NoRet}, ret : {NoRet}]]
    /\ \A c \in CallIds : calls[c].call_id = c
    /\ gateReady = FALSE
    /\ DispatchIdle
    /\ MatcherIdle
    /\ NormalizeIdle
    /\ BuilderIdle

TurnFrame ==
    /\ UNCHANGED <<dispatchVars, engineVars, inputVars>>
    /\ UNCHANGED <<matcherVars, normalizeVars, builderVars>>

\* line 132
CallClassify(c) ==
    /\ calls[c].pc = "start"
    /\ \E m \in BOOLEAN :
          calls' = [calls EXCEPT ![c].pc = "exec", ![c].is_mutating = m]
    /\ UNCHANGED gateReady
    /\ TurnFrame

\* Variant of CallExecEnter: the closure goes to handle without looking at
\* is_mutating.
CallExecEnterNoGate(c) ==
    /\ calls[c].pc = "exec"
    /\ calls' = [calls EXCEPT ![c].pc = "handle"]
    /\ UNCHANGED gateReady
    /\ TurnFrame

\* lines 188-193
CallExecEnter(c) ==
    /\ calls[c].pc = "exec"
    /\ calls' = IF calls[c].is_mutating
                THEN [calls EXCEPT ![c].pc = "gate", ![c].gateAwaited = TRUE]
                ELSE [calls EXCEPT ![c].pc = "handle"]
    /\ UNCHANGED gateReady
    /\ TurnFrame

\* line 191: wait_ready() returns
CallGatePass(c) ==
    /\ calls[c].pc = "gate"
    /\ gateReady
    /\ calls' = [calls EXCEPT ![c].pc = "handle"]
    /\ UNCHANGED gateReady
    /\ TurnFrame

\* line 194: handler.handle is invoked
CallHandlerCall(c) ==
    /\ calls[c].pc = "handle"
    /\ calls' = [calls EXCEPT ![c].pc = "handling", ![c].readyAtHandle = gateReady]
    /\ UNCHANGED gateReady
    /\ TurnFrame

\* lines 194-207: handle returns; on Ok the output goes into the cell of
\* the call
CallHandlerReturn(c) ==
    /\ calls[c].pc = "handling"
    /\ \/ \E o \in TurnOutputs :
             calls' = [calls EXCEPT ![c].pc = "respond",
                                    ![c].handled = Some(o),
                                    ![c].output_cell = Some(o),
                                    ![c].result = Ok(o)]
       \/ calls' = [calls EXCEPT ![c].pc = "respond",
                                 ![c].result = Err(<<"handler failed">>)]
    /\ UNCHANGED gateReady
    /\ TurnFrame

\* Variant of CallRespond: one cell serves all the calls of the registry, a
\* call taking whatever output is in a cell.
CallRespondSharedCell(c) ==
    /\ calls[c].pc = "respond"
    /\ IF calls[c].result.tag = "Ok"
       THEN \E d \in CallIds :
               /\ IsSome(calls[d].output_cell)
               /\ calls' = [[calls EXCEPT ![d].output_cell = None] EXCEPT
                              ![c].pc = "done",
                              ![c].ret = Ok(into_response(Get(calls[d].output_cell),
                                                          calls[c].call_id,
                                                          calls[c].payload))]
       ELSE calls' = [calls EXCEPT ![c].pc = "done", ![c].ret = calls[c].result]
    /\ UNCHANGED gateReady
    /\ TurnFrame

\* lines 223-232
CallRespond(c) ==
    /\ calls[c].pc = "respond"
    /\ IF calls[c].result.tag = "Ok"
       THEN IF IsSome(calls[c].output_cell)
            THEN calls' = [calls EXCEPT
                             ![c].pc = "done",
                             ![c].output_cell = None,
                             ![c].ret = Ok(into_response(Get(calls[c].output_cell),
                                                         calls[c].call_id,
                                                         calls[c].payload))]
            ELSE calls' = [calls EXCEPT
                             ![c].pc = "done",
                             ![c].ret = Err(<<"tool produced no output">>)]
       ELSE calls' = [calls EXCEPT ![c].pc = "done", ![c].ret = calls[c].result]
    /\ UNCHANGED gateReady
    /\ TurnFrame

\* what the task of call c can do
CallStep(c) ==
    \/ CallClassify(c)
    \/ CallExecEnter(c)
    \/ CallGatePass(c)
    \/ CallHandlerCall(c)
    \/ CallHandlerReturn(c)
    \/ CallRespond(c)

\* the gate is marked ready by its owner
TurnGateOpen ==
    /\ ~gateReady
    /\ gateReady' = TRUE
    /\ UNCHANGED calls
    /\ TurnFrame

Classify == \E c \in CallIds : CallClassify(c)
EnterExec == \E c \in CallIds : CallExecEnter(c)
PassGate == \E c \in CallIds : CallGatePass(c)
CallHandler == \E c \in CallIds : CallHandlerCall(c)
ReturnFromHandler == \E c \in CallIds : CallHandlerReturn(c)
Respond == \E c \in CallIds : CallRespond(c)

NextTurn ==
    \/ Classify
    \/ EnterExec
    \/ PassGate
    \/ CallHandler
    \/ ReturnFromHandler
    \/ Respond
    \/ TurnGateOpen

SpecTurn == InitTurn /\ [][NextTurn]_vars

-----------------------------------------------------------------------------
(* Properties *)

Running == {i \in DOMAIN children : children[i].st = "running"}

Matching == {i \in 1..Len(hooksCfg) :
                matches_tool(hooksCfg[i].matcher, inv.tool_name)}

Evaluated == {trace[k].rule : k \in 1..Len(trace)}

\* what the step recorded in hookResult led to
StepBlockedWith(r) == hookPc = "returned" /\ hookRet = Err(r)
StepContinued(rule) == hookPc = "loop" /\ idx = rule + 1 /\ hookRet = NoRet

IsWaitFailure(res) == res.tag = "Err" /\ Head(res.msg) = "Wait for hook: "
IsTimeout(res) == res.tag = "Err" /\ Head(res.msg) = "Hook timed out after "

\* C1: every dispatch call that has returned, on whatever outcome, has
\* emitted exactly one AfterToolUse event.
C1_AfterEventOncePerDispatch ==
    pc = "done" => Len(afterEvents) = 1

\* C2: when run_pre_tool_use_hooks returned a block, handle is never invoked
\* and the gate is never awaited, and dispatch returns RespondToModel with
\* exactly the reason the hook engine returned.
C2_BlockShortCircuitsDispatch ==
    hookRet.tag = "Err" =>
        /\ handleCalls = 0
        /\ ~gateAwaited
        /\ pc \in {"hooks", "done"}
        /\ pc = "done" => ret = FunctionCallError("RespondToModel", hookRet.msg)

C2_Witness ==
    /\ pc = "done"
    /\ hookRet.tag = "Err"
    /\ is_mutating
    /\ ret.text = <<"Blocked by test">>

\* C3: matching rules are evaluated strictly in configured order and one at
\* a time: at most one hook process of the call is running, and it is the
\* one of the rule the loop is at; once a rule has blocked, no later rule is
\* evaluated and no later process is spawned.
C3_RulesInOrderOneAtATime ==
    /\ Cardinality(Running) <= 1
    /\ \A i \in Running : i = idx /\ hookPc \in {"write", "wait"}
    /\ \A k \in 1..(Len(trace) - 1) :
          /\ trace[k].rule < trace[k + 1].rule
          /\ trace[k].outcome = "Continue"
    /\ hookPc \in {"loop", "write", "wait"} =>
          Evaluated = {i \in Matching : i < idx}
    /\ hookPc = "returned" /\ hookRet.tag = "Err" =>
          /\ trace[Len(trace)].outcome = "Block"
          /\ trace[Len(trace)].rule = idx
          /\ Evaluated = {i \in Matching : i <= idx}
    /\ \A i \in DOMAIN children : i > idx => children[i].st = "none"

C3_Witness ==
    /\ Len(hooksCfg) = 2
    /\ Matching = {1, 2}
    /\ hookPc = "returned"
    /\ hookRet.tag = "Err"
    /\ Len(trace) = 1
    /\ children[1].st = "exited"
    /\ children[2].st = "none"
    /\ hooksCfg[2].command # <<>>

\* C4: every hook-execution error of a matching rule becomes a block that
\* wraps the error text (on_failure = Deny) or a continuation with the next
\* rule (on_failure = Allow); it never surfaces in any other form.
C4_HookErrorsBecomeBlockOrContinue ==
    /\ hookPc # "panicked"
    /\ IsSome(hookResult) /\ Get(hookResult).res.tag = "Err" =>
          IF hooksCfg[Get(hookResult).rule].on_failure = "Deny"
          THEN StepBlockedWith(<<"Hook failed (fail-closed): ">>
                                  \o Get(hookResult).res.msg)
          ELSE StepContinued(Get(hookResult).rule)

\* C5: a hook process that exited with code 2 makes the call return a block,
\* for either on_failure, whether or not it read its stdin; the reason is
\* the trimmed stderr, or the generic message when that is empty.  (A
\* failure of wait_with_output itself is left out of the statement.)
C5_ExitCode2AlwaysBlocks ==
    ( /\ IsSome(hookResult)
      /\ Get(hookResult).child.st = "exited"
      /\ ~IsWaitFailure(Get(hookResult).res) )
    => ( Get(hookResult).child.out.code = 2 =>
            StepBlockedWith(Exit2Reason(Get(hookResult).child.out.stderr)) )

\* C6: a hook process that exited with code 0 and wrote nothing to stdout
\* is an Allow: the loop proceeds to the next rule, under every interleaving
\* of the write to its stdin and its exit.  (A failure of wait_with_output
\* itself is left out of the statement.)
C6_Exit0EmptyStdoutAllows ==
    ( /\ IsSome(hookResult)
      /\ Get(hookResult).child.st = "exited"
      /\ ~IsWaitFailure(Get(hookResult).res) )
    => ( ( /\ Get(hookResult).child.out.code = 0
           /\ Get(hookResult).child.out.stdout.runs = <<>> )
         => StepContinued(Get(hookResult).rule) )

AskToDeny(o) ==
    LET swap(d) == IF d = Some("Ask") THEN Some("Deny") ELSE d
    IN  [hook_specific_output |->
            IF o.hook_specific_output = None THEN None
            ELSE Some([Get(o.hook_specific_output) EXCEPT
                          !.permission_decision = swap(@)]),
         decision |-> swap(o.decision),
         reason |-> o.reason]

StepOutcome == IF hookPc = "returned" /\ hookRet.tag = "Err"
               THEN Block(hookRet.msg) ELSE Continue

\* C8: a parsed hook output whose effective decision is Deny or Ask makes the
\* call return a block carrying the effective reason, or the default text,
\* whatever the rule's on_failure; and what the loop does with an output is
\* what it would do with the same output with Ask replaced by Deny.
C8_AskIsDeny ==
    ( IsSome(hookResult) /\ Get(hookResult).res.tag = "Ok" )
    => LET o == Get(hookResult).res.val
           rule == hooksCfg[Get(hookResult).rule]
       IN  /\ decision(o) \in {"Deny", "Ask"} =>
                StepBlockedWith(IF IsSome(reason(o)) THEN Get(reason(o))
                                ELSE <<"Blocked by PreToolUse hook">>)
           /\ decision(o) = "Allow" => StepContinued(Get(hookResult).rule)
           /\ StepOutcome = RuleOutcome(rule, Ok(AskToDeny(o)))

C8_Witness ==
    /\ IsSome(hookResult)
    /\ Get(hookResult).res.tag = "Ok"
    /\ decision(Get(hookResult).res.val) = "Ask"
    /\ reason(Get(hookResult).res.val) = None
    /\ hooksCfg[Get(hookResult).rule].on_failure = "Allow"
    /\ hookRet = Err(<<"Blocked by PreToolUse hook">>)

\* C9: a hook that exceeds its timeout yields a hook-execution error handled
\* per on_failure, and once run_pre_tool_use_hooks has returned, by any
\* path, no hook process it spawned is running.
C9_NoChildOutlivesRun ==
    /\ ( /\ IsSome(hookResult)
         /\ Get(hookResult).child.st = "running"
         /\ ~IsWaitFailure(Get(hookResult).res) )
       => /\ IsTimeout(Get(hookResult).res)
          /\ children[Get(hookResult).rule].st = "killed"
          /\ IF hooksCfg[Get(hookResult).rule].on_failure = "Deny"
             THEN StepBlockedWith(<<"Hook failed (fail-closed): ">>
                                     \o Get(hookResult).res.msg)
             ELSE StepContinued(Get(hookResult).rule)
    /\ hookPc \in {"returned", "panicked"} => Running = {}
    /\ pc \in {"exec", "gate", "handle", "handling", "after", "respond", "done"}
          => Running = {}

C9_Witness ==
    /\ hookPc = "returned"
    /\ IsSome(hookResult)
    /\ IsTimeout(Get(hookResult).res)
    /\ children[Get(hookResult).rule].st = "killed"
    /\ toWrite = 0

\* C10: every call of run_pre_tool_use_hooks eventually returns provided the
\* timers fire: as long as it has not returned, it has a step of its own or
\* of its timer to take, whatever the hook process does or fails to do.
C10_RunCanAlwaysProgress ==
    hookPc \in {"loop", "write", "wait"} => ENABLED EngineProgress

\* C10 as a liveness property, for FairSpec: a call of run_pre_tool_use_hooks
\* that has started comes to an end.
C10_RunEventuallyReturns ==
    (hookPc = "loop") ~> (hookPc \in {"returned", "panicked"})

-----------------------------------------------------------------------------
(* Lookup and kind check *)

NoHookActivity ==
    /\ hookPc = "idle"
    /\ trace = <<>>
    /\ hookRet = NoRet
    /\ \A i \in DOMAIN children : children[i].st = "none"

\* C11: dispatching an invocation whose tool name is not in the registry
\* returns RespondToModel with the unsupported-call message (the custom one
\* for a Custom payload), records exactly one telemetry result, failed and of
\* zero duration, and runs no handler, no PreToolUse hook and no gate wait.
C11_UnknownToolRecoverableError ==
    inv.tool_name \notin DOMAIN Registry =>
        LET message == (IF inv.payload = "Custom"
                        THEN <<"unsupported custom tool call: ">>
                        ELSE <<"unsupported call: ">>) \o inv.tool_name
        IN  /\ pc \in {"start", "done"}
            /\ handleCalls = 0
            /\ ~gateAwaited
            /\ NoHookActivity
            /\ pc = "start" => otel = <<>> /\ ret = NoRet
            /\ pc = "done" =>
                  /\ ret = [tag |-> "Err", variant |-> "RespondToModel",
                            text |-> message]
                  /\ otel = <<[duration |-> "ZERO", success |-> FALSE,
                               message |-> message]>>

C11_Witness ==
    /\ pc = "done"
    /\ inv.tool_name \notin DOMAIN Registry
    /\ inv.payload = "Custom"
    /\ hooksCfg # <<>>
    /\ Len(otel) = 1

\* C12: when the payload variant is not the one the resolved handler takes
\* (Function for a Function handler, Mcp for an Mcp handler), dispatch
\* records one failed telemetry result and returns the fatal error; the
\* mutation classification, the PreToolUse hooks and handle are never run.
C12_KindMismatchIsFatal ==
    ( inv.tool_name \in DOMAIN Registry /\ Registry[inv.tool_name] # inv.payload )
    =>  LET message == <<"tool ">> \o inv.tool_name
                           \o <<" invoked with incompatible payload">>
        IN  /\ pc \in {"start", "done"}
            /\ is_mutating = FALSE
            /\ handleCalls = 0
            /\ ~gateAwaited
            /\ NoHookActivity
            /\ pc = "start" => otel = <<>> /\ ret = NoRet
            /\ pc = "done" =>
                  /\ ret = [tag |-> "Err", variant |-> "Fatal", text |-> message]
                  /\ Len(otel) = 1
                  /\ otel[1].success = FALSE
                  /\ otel[1].message = message

C12_Witness ==
    /\ pc = "done"
    /\ inv.tool_name = <<"s", "h">>
    /\ inv.payload = "LocalShell"
    /\ hooksCfg # <<>>
    /\ ret.variant = "Fatal"

-----------------------------------------------------------------------------
(* Rules with an empty command *)

\* C14: a matching rule with an empty command never spawns a process; with
\* on_failure = Deny run_pre_tool_use_hooks returns a block whose reason
\* names the empty command, with on_failure = Allow the rule does not block
\* and the loop goes on to the next rule.
C14_EmptyCommandNeverSpawns ==
    /\ \A i \in Matching : hooksCfg[i].command = <<>> => children[i].st = "none"
    /\ ( IsSome(hookResult) /\ Get(hookResult).res.tag = "EmptyCommand" ) =>
          /\ hooksCfg[Get(hookResult).rule].command = <<>>
          /\ Get(hookResult).rule \in Matching
          /\ IF hooksCfg[Get(hookResult).rule].on_failure = "Deny"
             THEN StepBlockedWith(<<"Hook misconfigured: empty command">>)
             ELSE StepContinued(Get(hookResult).rule)
    /\ \A k \in 1..Len(trace) :
          ( hooksCfg[trace[k].rule].command = <<>>
            /\ hooksCfg[trace[k].rule].on_failure = "Allow" )
          => trace[k].outcome = "Continue"

\* an empty-command rule with on_failure = Allow has been passed and the
\* rule after it is being run
C14_Witness ==
    /\ Len(hooksCfg) = 2
    /\ hooksCfg[1].command = <<>>
    /\ hooksCfg[1].on_failure = "Allow"
    /\ Matching = {1, 2}
    /\ children[1].st = "none"
    /\ children[2].st = "running"

-----------------------------------------------------------------------------
(* Decision strings *)

IsWriteFailure(res) == res.tag = "Err" /\ Head(res.msg) = "Write to hook stdin: "

DecisionStrings == {"allow", "approve", "deny", "block", "ask"}

\* the document with the legacy aliases replaced by the names they stand for
Unalias(doc) ==
    LET un(f) == IF f = Some("approve") THEN Some("allow")
                 ELSE IF f = Some("block") THEN Some("deny") ELSE f
    IN  [decision |-> un(doc.decision),
         reason |-> doc.reason,
         hookSpecificOutput |->
            IF doc.hookSpecificOutput = None THEN None
            ELSE Some([Get(doc.hookSpecificOutput) EXCEPT
                          !.permissionDecision = un(@)])]

-----------------------------------------------------------------------------
(* Handler errors *)

\* C20: when handle returned an error, dispatch returns that error, same
\* variant and same text, and not before the AfterToolUse event has been
\* dispatched with success = false.
C20_HandlerErrorPropagatesUnchanged ==
    ( pc \in {"after", "respond", "done"} /\ result.tag = "Err" ) =>
        /\ result \in HandlerResults
        /\ output_cell = None
        /\ pc = "after" => ret = NoRet /\ afterEvents = <<>>
        /\ pc \in {"respond", "done"} =>
              /\ Len(afterEvents) = 1
              /\ afterEvents[1].success = FALSE
        /\ pc = "respond" => ret = NoRet
        /\ pc = "done" => ret = [tag |-> "Err", variant |-> result.msg.variant,
                                  text |-> result.msg.text]

C20_Witness ==
    /\ pc = "done"
    /\ result = Err([variant |-> "Fatal", text |-> <<"handler failed">>])
    /\ ret = [tag |-> "Err", variant |-> "Fatal", text |-> <<"handler failed">>]
    /\ Len(afterEvents) = 1

-----------------------------------------------------------------------------
(* Concurrent dispatch calls and the gate *)

\* C13: with several dispatch calls running concurrently on one turn, the
\* handler of a call classified as mutating is never invoked before the
\* shared gate is ready; a call classified as non-mutating never awaits the
\* gate and, until it is done, always has a step to take, whether or not the
\* gate is ready and whatever calls are waiting on it.
C13_GateDelaysOnlyMutatingCalls ==
    \A c \in CallIds :
        /\ ( calls[c].is_mutating /\ calls[c].pc \in {"handling", "respond", "done"} ) =>
              /\ calls[c].readyAtHandle
              /\ calls[c].gateAwaited
              /\ gateReady
        /\ ( ~calls[c].is_mutating /\ calls[c].pc # "start" ) =>
              /\ calls[c].pc # "gate"
              /\ ~calls[c].gateAwaited
              /\ calls[c].pc # "done" => ENABLED CallStep(c)

\* a non-mutating call is done while a mutating one waits on the closed gate
C13_Witness ==
    \E c, d \in CallIds :
        /\ calls[c].is_mutating
        /\ calls[c].pc = "gate"
        /\ ~gateReady
        /\ ~calls[d].is_mutating
        /\ calls[d].pc = "done"
        /\ ~calls[d].readyAtHandle

\* each task is polled by the runtime as long as it can make progress;
\* nothing obliges the owner of the gate to open it
FairSpecTurn == SpecTurn /\ \A c \in CallIds : WF_vars(CallStep(c))

\* C13 as a liveness property, for FairSpecTurn: a call classified as
\* non-mutating comes to its end, also in the runs where the gate stays shut.
C13_NonMutatingCompletes ==
    \A c \in CallIds :
        (calls[c].pc = "exec" /\ ~calls[c].is_mutating) ~> (calls[c].pc = "done")

-----------------------------------------------------------------------------
(* Rules that do not match *)

\* C15: when no configured rule matches the tool name, zero rules included,
\* run_pre_tool_use_hooks returns success and spawns no process, whatever
\* the commands and the on_failure of the rules.
C15_NoMatchNoSpawn ==
    Matching = {} =>
        /\ \A i \in DOMAIN children : children[i].st = "none"
        /\ trace = <<>>
        /\ hookResult = None
        /\ hookPc \in {"loop", "returned"}
        /\ hookPc = "loop" => hookRet = NoRet
        /\ hookPc = "returned" => hookRet = [tag |-> "Ok"]

\* the configuration of test_no_matching_hooks_allows, followed by a second
\* rule that does not match either
C15_Witness ==
    /\ hookPc = "returned"
    /\ hookRet = [tag |-> "Ok"]
    /\ Len(hooksCfg) = 2
    /\ Matching = {}
    /\ hooksCfg[1].command = <<"hook">>
    /\ hooksCfg[1].on_failure = "Deny"
    /\ hooksCfg[2].command = <<>>

\* zero configured rules
C15_WitnessNoRules ==
    hookPc = "returned" /\ hookRet = [tag |-> "Ok"] /\ hooksCfg = <<>>

-----------------------------------------------------------------------------
(* matches_tool *)

\* the same letter, in either case
SameLetter(a, b) == a = b \/ {a, b} = {"s", "S"} \/ {a, b} = {"e'", "E'"}

\* the same letter, in either case if it is one of A-Z
SameAsciiLetter(a, b) == a = b \/ {a, b} = {"s", "S"}

\* the lengths of the prefixes of n that the first k characters of p match,
\* '*' standing for any run of characters and '?' for any one character
RECURSIVE GlobPrefixes(_, _, _)
GlobPrefixes(p, n, k) ==
    IF k = 0 THEN {0}
    ELSE LET before == GlobPrefixes(p, n, k - 1)
         IN  IF p[k] = "*"
             THEN {j \in 0..Len(n) : \E i \in before : i <= j}
             ELSE {i + 1 : i \in {i \in before :
                                     /\ i < Len(n)
                                     /\ p[k] = "?" \/ SameLetter(p[k], n[i + 1])}}

GlobMatches(p, n) == Len(n) \in GlobPrefixes(p, n, Len(p))

HasGlobChar(p) == \E i \in 1..Len(p) : p[i] \in {"*", "?"}

\* C17: matches_tool returns for every pattern p and tool name n, and: p =
\* "*" matches every n; if p contains '*' or '?' the result is
\* case-insensitive glob matching; otherwise the result is true exactly
\* when p and n are equal ignoring case.
C17_MatchesToolAsSpecified ==
    m_result # NoRet =>
        /\ m_result.tag = "Ok"
        /\ m_result.val \in BOOLEAN
        /\ m_result.val =
              IF m_pattern = <<"*">> THEN TRUE
              ELSE IF HasGlobChar(m_pattern) THEN GlobMatches(m_pattern, m_tool_name)
              ELSE /\ Len(m_pattern) = Len(m_tool_name)
                   /\ \A i \in 1..Len(m_pattern) :
                         SameLetter(m_pattern[i], m_tool_name[i])

\* C17 with the exact comparison read as ignoring the case of the letters
\* A-Z only, which is what the code computes.
C17_ExactIgnoresAsciiCaseOnly ==
    m_result # NoRet =>
        /\ m_result.tag = "Ok"
        /\ m_result.val \in BOOLEAN
        /\ m_result.val =
              IF m_pattern = <<"*">> THEN TRUE
              ELSE IF HasGlobChar(m_pattern) THEN GlobMatches(m_pattern, m_tool_name)
              ELSE /\ Len(m_pattern) = Len(m_tool_name)
                   /\ \A i \in 1..Len(m_pattern) :
                         SameAsciiLetter(m_pattern[i], m_tool_name[i])

-----------------------------------------------------------------------------
(* normalize_command_to_string *)

\* the string elements of an array, joined by single spaces
RECURSIVE SpaceSeparated(_)
SpaceSeparated(strs) ==
    IF strs = <<>> THEN <<>>
    ELSE IF Len(strs) = 1 THEN strs[1]
    ELSE SpaceSeparated(SubSeq(strs, 1, Len(strs) - 1)) \o <<" ">> \o strs[Len(strs)]

StringElements(items) ==
    LET strs == SelectSeq(items, LAMBDA v : v.t = "String")
    IN  [i \in 1..Len(strs) |-> strs[i].s]

JoinedCommand(v) == JString(SpaceSeparated(StringElements(v.items)))

\* C18: on an object, an array-valued command is joined into one
\* space-separated string, cmd is copied into command only when command is
\* absent, and whenever both cmd and command are present command is left
\* untouched; every other key and every non-object value is unchanged.
C18_CommandUntouchedWhenBothPresent ==
    IsSome(value_in) =>
        LET in == Get(value_in)
        IN  IF in.t # "Object" THEN value = in
            ELSE /\ value.t = "Object"
                 /\ value.obj.cmd = in.obj.cmd
                 /\ value.obj.other = in.obj.other
                 /\ IF IsSome(in.obj.command)
                    THEN IF IsSome(in.obj.cmd)
                         THEN value.obj.command = in.obj.command
                         ELSE value.obj.command =
                                IF Get(in.obj.command).t = "Array"
                                THEN Some(JoinedCommand(Get(in.obj.command)))
                                ELSE in.obj.command
                    ELSE value.obj.command =
                            IF IsSome(in.obj.cmd) /\ Get(in.obj.cmd).t = "String"
                            THEN in.obj.cmd ELSE None

\* C18, as the code has it: on an object, an array-valued command is joined
\* into one space-separated string whether or not cmd is present, cmd (a
\* string) is copied into command only when command is absent, and a
\* command that is present is never replaced by cmd; every other key and
\* every non-object value is unchanged.
C18_JoinsCommandAliasesCmd ==
    IsSome(value_in) =>
        LET in == Get(value_in)
        IN  IF in.t # "Object" THEN value = in
            ELSE /\ value.t = "Object"
                 /\ value.obj.cmd = in.obj.cmd
                 /\ value.obj.other = in.obj.other
                 /\ IF IsSome(in.obj.command)
                    THEN value.obj.command =
                            IF Get(in.obj.command).t = "Array"
                            THEN Some(JoinedCommand(Get(in.obj.command)))
                            ELSE in.obj.command
                    ELSE value.obj.command =
                            IF IsSome(in.obj.cmd) /\ Get(in.obj.cmd).t = "String"
                            THEN in.obj.cmd ELSE None

\* cmd and an array-valued command are both present: command is joined
C18_Witness ==
    /\ value_in = Some(JObject([cmd |-> Some(JString(<<"x">>)),
                                command |-> Some(JArray(<<JString(<<"a">>),
                                                         JString(<<"b">>)>>)),
                                other |-> None]))
    /\ value.obj.command = Some(JString(<<"a", " ", "b">>))
    /\ value.obj.cmd = Some(JString(<<"x">>))

-----------------------------------------------------------------------------
(* ToolRegistryBuilder *)

Registrations(name) ==
    {k \in 1..Len(builderCalls) :
        builderCalls[k].op = "register_handler" /\ builderCalls[k].name = name}

LastRegistered(name) ==
    IF Registrations(name) = {} THEN None
    ELSE Some(builderCalls[CHOOSE k \in Registrations(name) :
                              \A j \in Registrations(name) : j <= k].arg)

PushedSpecs ==
    LET pushes == SelectSeq(builderCalls, LAMBDA call : call.op = "push_spec")
    IN  [i \in 1..Len(pushes) |->
            [spec |-> pushes[i].name,
             supports_parallel_tool_calls |-> pushes[i].arg = "true"]]

\* C19: after any sequence of register_handler (and push_spec) calls
\* followed by build, looking a name up returns the handler of the last
\* registration of that name, a name never registered gives none, and the
\* spec list is the pushed specs in push order, whatever was registered.
C19_LastRegistrationWins ==
    IsSome(built) =>
        /\ \A name \in HandlerNames \cup {"view_image"} :
              RegistryHandler(Get(built).registry, name) = LastRegistered(name)
        /\ RegistryHandler(Get(built).registry, "view_image") = None
        /\ Get(built).specs = PushedSpecs

\* a name registered twice, a spec pushed in between, then build
C19_Witness ==
    /\ IsSome(built)
    /\ builderCalls =
          <<[op |-> "register_handler", name |-> "shell", arg |-> "h1"],
            [op |-> "push_spec", name |-> "spec2", arg |-> "false"],
            [op |-> "register_handler", name |-> "shell", arg |-> "h2"]>>
    /\ RegistryHandler(Get(built).registry, "shell") = Some("h2")
    /\ RegistryHandler(Get(built).registry, "apply_patch") = None

-----------------------------------------------------------------------------
(* The output cell *)

\* C21: the output cell of a dispatch call is written at most once and only
\* when handle returned Ok, and taken at most once; whenever the closure
\* reported success the cell holds the output when it is read, and dispatch
\* never answers an empty cell with a response.
C21_OutputCellWrittenOnceTakenOnce ==
    /\ handleCalls <= 1
    /\ pc \in {"start", "prehooks", "hooks", "exec", "gate", "handle", "handling"} =>
          output_cell = None /\ result = NoRet
    /\ pc \in {"after", "respond"} =>
          /\ IsSome(output_cell) <=> result.tag = "Ok"
          /\ result.tag = "Ok" =>
                /\ Get(output_cell).preview = result.val.preview
                /\ Get(output_cell).success = result.val.success
    /\ pc = "done" =>
          /\ output_cell = None
          /\ result.tag = "Ok" <=> ret.tag = "Ok"
          /\ ret.tag = "Ok" =>
                /\ ret.val.output.preview = result.val.preview
                /\ ret.val.output.success = result.val.success

\* the cell holds the output of a handler that succeeded, before it is read
C21_Witness ==
    /\ pc = "respond"
    /\ result.tag = "Ok"
    /\ output_cell = Some([preview |-> <<"out">>, success |-> FALSE])
    /\ handleCalls = 1

-----------------------------------------------------------------------------
(* Mutation classification *)

\* C22: an invocation whose handler gives no classification of its own is
\* classified as mutating, so that its handle is invoked only after the
\* gate was awaited and found ready.
C22_UnclassifiedIsMutating ==
    ( /\ inv.tool_name \in DOMAIN Registry
      /\ inv.tool_name \notin OwnIsMutating
      /\ pc \notin {"start", "done"} )
    =>  /\ is_mutating
        /\ pc \in {"handling", "after", "respond"} => gateAwaited /\ gateReady

-----------------------------------------------------------------------------
(* Output of a hook that is no HookOutput *)

\* C25: a hook that exits 0 with non-empty stdout that is no valid
\* HookOutput JSON, of whatever length and characters, yields a
\* hook-execution error holding a preview of at most the first 200
\* characters, handled by the rule's on_failure; the call never aborts.
C25_ParseFailureIsAnErrorWithPreview ==
    /\ hookPc # "panicked"
    /\ pc # "panicked"
    /\ ( /\ IsSome(hookResult)
         /\ Get(hookResult).child.st = "exited"
         /\ Get(hookResult).child.out.code = 0
         /\ ~TrimIsEmpty(Get(hookResult).child.out.stdout.runs)
         /\ \/ Get(hookResult).child.out.stdout.json = None
            \/ ~DeserializeOk(Get(Get(hookResult).child.out.stdout.json))
         /\ ~IsWaitFailure(Get(hookResult).res)
         /\ ~IsWriteFailure(Get(hookResult).res) )
       => LET runs == Get(hookResult).child.out.stdout.runs
              res == Get(hookResult).res
              rule == Get(hookResult).rule
          IN  /\ res.tag = "Err"
              /\ Head(res.msg) = "Parse hook output: "
              /\ \E k \in 0..PreviewBytes :
                    /\ IsCharBoundary(runs, k)
                    /\ CharLen(SliceTo(runs, k)) <= PreviewBytes
                    /\ res.msg[4] = ToString(SliceTo(runs, k))
              /\ IF hooksCfg[rule].on_failure = "Deny"
                 THEN StepBlockedWith(<<"Hook failed (fail-closed): ">> \o res.msg)
                 ELSE StepContinued(rule)

-----------------------------------------------------------------------------
(* Telemetry *)

HookBlocked == hookPc = "returned" /\ hookRet.tag = "Err"

\* C26: a dispatch call that has returned recorded exactly one telemetry
\* tool-result, on each of its paths: unknown tool, kind mismatch, block by
\* a PreToolUse hook, handler success and handler error; the records of the
\* first three are marked failed; no call records more than one.
C26_OneTelemetryResultPerCall ==
    /\ Len(otel) <= 1
    /\ pc = "done" =>
          /\ Len(otel) = 1
          /\ ( \/ inv.tool_name \notin DOMAIN Registry
               \/ Registry[inv.tool_name] # inv.payload
               \/ HookBlocked ) => otel[1].success = FALSE
          /\ handleCalls = 1 =>
                otel[1].success = (result.tag = "Ok" /\ result.val.success)
    /\ pc \in {"start", "prehooks", "hooks", "exec", "gate", "handle", "handling"} =>
          otel = <<>>

\* the record of a call a hook blocked
C26_Witness ==
    /\ pc = "done"
    /\ HookBlocked
    /\ Len(otel) = 1
    /\ otel[1].duration = "elapsed"
    /\ otel[1].message = hookRet.msg

-----------------------------------------------------------------------------
(* The AfterToolUse event *)

\* the whole milliseconds of a number of microseconds
WholeMillis(micros) ==
    CHOOSE n \in 0..micros : n * 1000 <= micros /\ micros < (n + 1) * 1000

\* C23: in every AfterToolUse event emitted, executed is true exactly when
\* handle was invoked for the call, success is false when the handler
\* returned an error and the success flag of its output otherwise, mutating
\* is the classification of the call, and duration_ms is the elapsed time in
\* whole milliseconds, u64::MAX when that count does not fit into 64 bits.
C23_AfterEventFields ==
    \A i \in 1..Len(afterEvents) :
        LET e == afterEvents[i]
        IN  /\ e.executed <=> handleCalls = 1
            /\ result.tag \in {"Ok", "Err"}
            /\ result.tag = "Err" => ~e.success
            /\ result.tag = "Ok" => e.success = result.val.success
            /\ e.mutating = is_mutating
            /\ IsSome(duration)
            /\ e.duration_ms = IF Get(duration).huge
                               THEN [max |-> TRUE, n |-> 0]
                               ELSE [max |-> FALSE, n |-> WholeMillis(Get(duration).micros)]

\* the event of a handler that returned an output marked unsuccessful,
\* after a time whose milliseconds do not fit
C23_Witness ==
    /\ Len(afterEvents) = 1
    /\ result.tag = "Ok"
    /\ ~afterEvents[1].success
    /\ afterEvents[1].executed
    /\ afterEvents[1].mutating
    /\ Get(duration).huge
    /\ afterEvents[1].duration_ms.max

\* a HookToolInput read as the JSON value it stands for, a text that is no
\* JSON being read as null, as extract_tool_input_for_hooks reads it
ReadAsValue(h) ==
    CASE h.variant \in {"Function", "Mcp"} ->
           IF IsSome(h.json) THEN Get(h.json) ELSE Plain(JNull)
      [] h.variant = "LocalShell" ->
           JObject([NoMembers EXCEPT
                      !.command = Some(JArray([j \in 1..Len(h.command) |->
                                                  JString(h.command[j])]))])
      [] h.variant = "Custom" -> Plain(JString(h.text))

\* C24: the tool input of an AfterToolUse event is the normalized tool
\* input, the representation the PreToolUse hooks of the call were given.
C24_AfterEventCarriesNormalizedInput ==
    \A i \in 1..Len(afterEvents) :
        /\ ReadAsValue(afterEvents[i].tool_input)
             = extract_tool_input_for_hooks(inv.payload, inv.arguments)
        /\ IsSome(tool_input) =>
             ReadAsValue(afterEvents[i].tool_input) = Get(tool_input)

-----------------------------------------------------------------------------
(* The hooks as a gate for every payload *)

PassedChecks ==
    /\ inv.tool_name \in DOMAIN Registry
    /\ Registry[inv.tool_name] = inv.payload

\* C27: when at least one PreToolUse rule is configured, the hook engine is
\* run for every invocation that passed lookup and kind check, whatever its
\* payload: arguments that are no JSON give the hooks a null tool input
\* instead of skipping them, and handle is invoked only after
\* run_pre_tool_use_hooks returned Ok.
C27_HooksRunWhateverThePayload ==
    /\ ( hooksCfg # <<>> /\ PassedChecks /\ pc \notin {"start", "prehooks"} ) =>
          /\ hookPc # "idle"
          /\ tool_input = Some(IF inv.arguments.json = None
                               THEN Plain(JNull)
                               ELSE extract_tool_input_for_hooks(inv.payload,
                                                                 inv.arguments))
    /\ ( hooksCfg # <<>> /\ handleCalls > 0 ) =>
          hookPc = "returned" /\ hookRet.tag = "Ok"

\* a call whose arguments are no JSON reached its handler past a hook
C27_Witness ==
    /\ hooksCfg # <<>>
    /\ inv.arguments = NotJson
    /\ tool_input = Some(Plain(JNull))
    /\ trace # <<>>
    /\ hookRet.tag = "Ok"
    /\ handleCalls = 1

-----------------------------------------------------------------------------
(* Concurrent dispatch calls and their outputs *)

\* C28: under every interleaving of concurrent dispatch calls on one
\* registry, a call that returns a response returns one keyed by its own
\* call id and built from the output of its own handler invocation and from
\* its own payload; the cell of a call holds nothing but the output of that
\* call's handler, until the call takes it.
C28_ResponseIsOfOwnCall ==
    \A c \in CallIds :
        /\ IsSome(calls[c].output_cell) =>
              /\ calls[c].pc = "respond"
              /\ calls[c].output_cell = calls[c].handled
        /\ ( calls[c].pc = "done" /\ calls[c].ret.tag = "Ok" ) =>
              /\ IsSome(calls[c].handled)
              /\ calls[c].ret.val = [call_id |-> c,
                                      output |-> Get(calls[c].handled),
                                      payload |-> calls[c].payload]
              /\ calls[c].output_cell = None
        /\ ( calls[c].pc = "done" /\ calls[c].result.tag = "Ok" ) =>
              calls[c].ret.tag = "Ok"

\* two calls with different payloads whose handlers returned different
\* outputs, the one that returned from its handler last having its response
\* while the output of the other is still in that call's cell
C28_Witness ==
    \E c, d \in CallIds :
        /\ c # d
        /\ calls[c].payload # calls[d].payload
        /\ calls[d].pc = "respond"
        /\ IsSome(calls[d].output_cell)
        /\ calls[c].pc = "done"
        /\ calls[c].ret.tag = "Ok"
        /\ calls[c].ret.val.output # Get(calls[d].output_cell)

=============================================================================
